---- MODULE Spec2Model ----
(***************************************************************************)
(* Model of jtec's "gatus" command: the synthesis of Gatus endpoint        *)
(* records from the HTTPRoute and Ingress resources of a cluster.          *)
(*                                                                         *)
(* Python strings are sequences of symbols.  A symbol is one character,    *)
(* or a run of characters on which no string operation of the program      *)
(* looks inside (a host name, a namespace, the literal "https://", one of  *)
(* the annotation-key literals "gatus.io/...").  Python dicts are          *)
(* sequences of <<key, value>> pairs in insertion order.  An optional      *)
(* value (None or a value) is the empty sequence or a one-element one.     *)
(***************************************************************************)
EXTENDS Integers, Sequences, FiniteSets, TLC

VARIABLES
  args,        \* the options main was called with
  httproutes,  \* items the cluster returns for HTTPRoute
  ingresses,   \* items the cluster returns for Ingress
  pc,          \* main's position
  idx,         \* position of the current loop over items (1-based)
  endpoints,   \* the batch accumulated so far
  err,         \* the exception that ended the run, if any
  output       \* the output file: absent, or the document written

vars == <<args, httproutes, ingresses, pc, idx, endpoints, err, output>>

----------------------------------------------------------------------------
(* Strings *)

LowerLetters == <<"a","b","c","d","e","f","g","h","i","j","k","l","m",
                  "n","o","p","q","r","s","t","u","v","w","x","y","z">>

UpperLetters == <<"A","B","C","D","E","F","G","H","I","J","K","L","M",
                  "N","O","P","Q","R","S","T","U","V","W","X","Y","Z">>

\* str.upper() on one character
UpperChar(c) ==
  IF \E i \in DOMAIN LowerLetters : LowerLetters[i] = c
  THEN UpperLetters[CHOOSE i \in DOMAIN LowerLetters : LowerLetters[i] = c]
  ELSE c

\* str.lower() on one character
LowerChar(c) ==
  IF \E i \in DOMAIN UpperLetters : UpperLetters[i] = c
  THEN LowerLetters[CHOOSE i \in DOMAIN UpperLetters : UpperLetters[i] = c]
  ELSE c

\* str.upper()
Upper(s) == [i \in DOMAIN s |-> UpperChar(s[i])]

\* str.lower()
Lower(s) == [i \in DOMAIN s |-> LowerChar(s[i])]

\* the characters str.strip() removes
IsSpace(c) == c \in {" ", "\t", "\n"}

RECURSIVE LStrip(_)
LStrip(s) ==
  IF s # <<>> /\ IsSpace(Head(s)) THEN LStrip(Tail(s)) ELSE s

RECURSIVE RStrip(_)
RStrip(s) ==
  IF s # <<>> /\ IsSpace(s[Len(s)]) THEN RStrip(SubSeq(s, 1, Len(s) - 1)) ELSE s

\* str.strip()
Strip(s) == RStrip(LStrip(s))

\* str.startswith(prefix)
StartsWith(s, prefix) ==
  Len(s) >= Len(prefix) /\ SubSeq(s, 1, Len(prefix)) = prefix

\* str.replace(old, new): every non-overlapping occurrence, left to right
RECURSIVE Replace(_, _, _)
Replace(s, old, new) ==
  IF s = <<>> THEN <<>>
  ELSE IF StartsWith(s, old)
       THEN new \o Replace(SubSeq(s, Len(old) + 1, Len(s)), old, new)
       ELSE <<Head(s)>> \o Replace(Tail(s), old, new)

Digits == <<"0","1","2","3","4","5","6","7","8","9">>

\* str(n) for n >= 0, as the f-string formats i + 1
RECURSIVE IntToStr(_)
IntToStr(n) ==
  IF n < 10 THEN <<Digits[n + 1]>>
  ELSE IntToStr(n \div 10) \o <<Digits[(n % 10) + 1]>>

----------------------------------------------------------------------------
(* Dicts *)

DictKeys(d) == {d[i][1] : i \in DOMAIN d}

DictHas(d, k) == k \in DictKeys(d)

DictIndex(d, k) == CHOOSE i \in DOMAIN d : d[i][1] = k

\* d.get(k, default)
DictGet(d, k, default) ==
  IF DictHas(d, k) THEN d[DictIndex(d, k)][2] ELSE default

\* d[k] = v : an existing key keeps its position
DictSet(d, k, v) ==
  IF DictHas(d, k)
  THEN [d EXCEPT ![DictIndex(d, k)] = <<k, v>>]
  ELSE Append(d, <<k, v>>)

\* d.pop(k, None)
DictPop(d, k) ==
  IF DictHas(d, k)
  THEN LET i == DictIndex(d, k)
       IN  SubSeq(d, 1, i - 1) \o SubSeq(d, i + 1, Len(d))
  ELSE d

----------------------------------------------------------------------------
(* Literals of the program *)

NameKey       == <<"gatus.io/name">>
PathKey       == <<"gatus.io/path">>
EnabledKey    == <<"gatus.io/enabled">>
IntervalKey   == <<"gatus.io/interval">>
ConditionsPfx == <<"gatus.io/conditions.">>
HeaderPfx     == <<"gatus.io/header.">>

StatusName       == <<"s","t","a","t","u","s">>
ResponseTimeName == <<"r","e","s","p","o","n","s","e","-","t","i","m","e">>

NoError == <<>>

ValueError(msg, detail) ==
  <<[type |-> "ValueError", msg |-> msg, detail |-> detail]>>

ClickException(msg, detail) ==
  <<[type |-> "ClickException", msg |-> msg, detail |-> detail]>>

----------------------------------------------------------------------------
(* generate_conditions *)

\* f"[{condition_name}] {value}"
FormatCondition(condition_name, value) ==
  <<"[">> \o condition_name \o <<"]", " ">> \o value

\* condition_name.upper().replace("-", "_")
NormaliseName(condition_name) ==
  Replace(Upper(condition_name), <<"-">>, <<"_">>)

DefaultConditions(status_code, response_time) ==
  << <<StatusName,       <<"=", "=", " ">> \o status_code>>,
     <<ResponseTimeName, <<"<", " ">> \o response_time>> >>

\* the loop over annotations.items(): st = [defaults, conditions]
RECURSIVE ConditionsLoop(_, _, _)
ConditionsLoop(annotations, i, st) ==
  IF i > Len(annotations) THEN st
  ELSE LET key   == annotations[i][1]
           value == annotations[i][2]
       IN  IF StartsWith(key, ConditionsPfx)
           THEN LET condition_name == Replace(key, ConditionsPfx, <<>>)
                IN  ConditionsLoop(annotations, i + 1,
                      [defaults   |-> DictPop(st.defaults, condition_name),
                       conditions |-> Append(st.conditions,
                                        FormatCondition(NormaliseName(condition_name),
                                                        Strip(value)))])
           ELSE ConditionsLoop(annotations, i + 1, st)

\* a plausible slip: the remaining defaults come first
GenerateConditionsDefaultsFirst(annotations, status_code, response_time) ==
  LET st == ConditionsLoop(annotations, 1,
              [defaults   |-> DefaultConditions(status_code, response_time),
               conditions |-> <<>>])
  IN  [i \in DOMAIN st.defaults |->
         FormatCondition(NormaliseName(st.defaults[i][1]), st.defaults[i][2])]
      \o st.conditions

GenerateConditions(annotations, status_code, response_time) ==
  LET st == ConditionsLoop(annotations, 1,
              [defaults   |-> DefaultConditions(status_code, response_time),
               conditions |-> <<>>])
  IN  st.conditions \o
      [i \in DOMAIN st.defaults |->
         FormatCondition(NormaliseName(st.defaults[i][1]), st.defaults[i][2])]

----------------------------------------------------------------------------
(* generate_headers *)

RECURSIVE CliHeadersLoop(_, _, _)
CliHeadersLoop(header, i, headers) ==
  IF i > Len(header) THEN headers
  ELSE CliHeadersLoop(header, i + 1, DictSet(headers, header[i][1], header[i][2]))

RECURSIVE AnnotationHeadersLoop(_, _, _)
AnnotationHeadersLoop(annotations, i, headers) ==
  IF i > Len(annotations) THEN headers
  ELSE LET key   == annotations[i][1]
           value == annotations[i][2]
       IN  IF StartsWith(key, HeaderPfx)
           THEN AnnotationHeadersLoop(annotations, i + 1,
                  DictSet(headers, Replace(key, HeaderPfx, <<>>), value))
           ELSE AnnotationHeadersLoop(annotations, i + 1, headers)

\* a plausible slip: the command-line headers are applied last and win
GenerateHeadersCliLast(annotations, header) ==
  CliHeadersLoop(header, 1, AnnotationHeadersLoop(annotations, 1, <<>>))

GenerateHeaders(annotations, header) ==
  AnnotationHeadersLoop(annotations, 1, CliHeadersLoop(header, 1, <<>>))

----------------------------------------------------------------------------
(* class Endpoint *)

\* an argument that is a bool, or a str
BoolArg(b) == [type |-> "bool", value |-> b]
StrArg(s)  == [type |-> "str", value |-> s]

TrueWords  == { <<"t","r","u","e">>, <<"y","e","s">>, <<"y">>, <<"1">> }
FalseWords == { <<"f","a","l","s","e">>, <<"n","o">>, <<"n">>, <<"0">> }

\* a plausible slip: a string that is no boolean word reads as False
StrToBoolLenient(value) ==
  IF value.type = "bool" THEN [err |-> NoError, value |-> value.value]
  ELSE [err |-> NoError, value |-> Lower(value.value) \in TrueWords]

\* Endpoint._str_to_bool: [err, value]
StrToBool(value) ==
  IF value.type = "bool" THEN [err |-> NoError, value |-> value.value]
  ELSE IF Lower(value.value) \in TrueWords THEN [err |-> NoError, value |-> TRUE]
  ELSE IF Lower(value.value) \in FalseWords THEN [err |-> NoError, value |-> FALSE]
  ELSE [err   |-> ValueError("Cannot convert to boolean", value.value),
        value |-> FALSE]

DefaultUi ==
  [hide_conditions |-> FALSE, hide_hostname |-> FALSE, hide_port |-> FALSE,
   hide_url |-> FALSE, dont_resolve_failed_conditions |-> FALSE,
   badge |-> [response_time |-> <<50, 200, 300, 500, 750>>]]

\* Endpoint.__init__ followed by to_dict: [err, dict]
Endpoint(name, url, enabled, group, interval, conditions, headers, alerts) ==
  LET b == StrToBool(enabled)
      d == [name |-> name, url |-> url, enabled |-> b.value, group |-> group,
            method |-> <<"GET">>, conditions |-> conditions,
            interval |-> interval, graphql |-> FALSE, body |-> <<>>,
            headers |-> headers, dns |-> <<>>, ssh |-> <<>>,
            alerts |-> alerts, maintenance_windows |-> <<>>,
            client |-> <<>>, ui |-> DefaultUi]
  IN  IF name = <<>>
      THEN [err |-> ValueError("Endpoint name is required", <<>>), dict |-> d]
      ELSE IF url = <<>>
      THEN [err |-> ValueError("Endpoint URL is required", <<>>), dict |-> d]
      ELSE [err |-> b.err, dict |-> d]

----------------------------------------------------------------------------
(* process_ingresses, process_httproutes *)

None == <<>>

\* group if group is not None else <fallback>
GroupOr(group, fallback) == IF group # None THEN group[1] ELSE fallback

\* main: [{"type": a} for a in alert]; the callee: alerts if alerts else []
Alerts(alert) == [i \in DOMAIN alert |-> [type |-> alert[i]]]

\* a plausible slip: list.insert(0, x) where list.append(x) is meant
ListPrepend(list, x) == <<x>> \o list

\* list.append(x)
ListAppend(list, x) == Append(list, x)

\* a plausible slip: the index is appended whenever there are several entries,
\* also to a name that comes from the annotation
EndpointNameAlwaysIndexed(annotations, name, i, count) ==
  LET endpoint_name == DictGet(annotations, NameKey, name)
  IN  IF count > 1
      THEN endpoint_name \o <<"[">> \o IntToStr(i + 1) \o <<"]">>
      ELSE endpoint_name

\* The name given to the endpoint of entry i (0-based, as enumerate counts)
\* of a resource called `name` that lists `count` entries.
EndpointName(annotations, name, i, count) ==
  LET endpoint_name == DictGet(annotations, NameKey, name)
  IN  IF endpoint_name = name /\ count > 1
      THEN endpoint_name \o <<"[">> \o IntToStr(i + 1) \o <<"]">>
      ELSE endpoint_name

\* enabled=annotations.get("gatus.io/enabled", True)
EnabledArg(annotations) ==
  IF DictHas(annotations, EnabledKey)
  THEN StrArg(DictGet(annotations, EnabledKey, <<>>))
  ELSE BoolArg(TRUE)

\* the loop over enumerate(ingress.spec.rules), from entry i (1-based here):
\* [err, endpoints]
RECURSIVE IngressRulesLoop(_, _, _, _)
IngressRulesLoop(ingress, i, eps, a) ==
  IF i > Len(ingress.rules) THEN [err |-> NoError, endpoints |-> eps]
  ELSE IF ingress.rules[i] = <<>>
  THEN IngressRulesLoop(ingress, i + 1, eps, a)
  ELSE LET annotations == ingress.annotations
           path == DictGet(annotations, PathKey, <<>>)
           url  == <<"https://">> \o ingress.rules[i] \o path
           e == Endpoint(
                  EndpointName(annotations, ingress.name, i - 1, Len(ingress.rules)),
                  url,
                  EnabledArg(annotations),
                  GroupOr(a.group, ingress.namespace),
                  DictGet(annotations, IntervalKey, a.interval),
                  GenerateConditions(annotations, a.status_code, a.response_time),
                  GenerateHeaders(annotations, a.header),
                  Alerts(a.alert))
       IN  IF e.err # NoError THEN [err |-> e.err, endpoints |-> eps]
           ELSE IngressRulesLoop(ingress, i + 1, ListAppend(eps, e.dict), a)

\* one iteration of `for ingress in ingresses.items`
ProcessIngress(ingress, eps, a) == IngressRulesLoop(ingress, 1, eps, a)

\* the loop over enumerate(hostnames): [err, endpoints]
RECURSIVE HostnamesLoop(_, _, _, _)
HostnamesLoop(route, i, eps, a) ==
  IF i > Len(route.hostnames) THEN [err |-> NoError, endpoints |-> eps]
  ELSE LET clean_hostname == Strip(route.hostnames[i])
       IN  IF clean_hostname = <<>>
           THEN HostnamesLoop(route, i + 1, eps, a)
           ELSE LET annotations == route.annotations
                    parent_ref_name ==
                      IF route.parentRefs # <<>> THEN route.parentRefs[1]
                      ELSE <<"default-gateway">>
                    path == DictGet(annotations, PathKey, <<>>)
                    url  == <<"https://">> \o clean_hostname \o path
                    e == Endpoint(
                           EndpointName(annotations, route.name, i - 1,
                                        Len(route.hostnames)),
                           url,
                           EnabledArg(annotations),
                           GroupOr(a.group, parent_ref_name),
                           DictGet(annotations, IntervalKey, a.interval),
                           GenerateConditions(annotations, a.status_code,
                                              a.response_time),
                           GenerateHeaders(annotations, a.header),
                           Alerts(a.alert))
                IN  IF e.err # NoError THEN [err |-> e.err, endpoints |-> eps]
                    ELSE HostnamesLoop(route, i + 1, ListAppend(eps, e.dict), a)

\* a plausible slip: `break` where `continue` is meant, so the first blank
\* hostname ends the loop
ProcessHTTPRouteBreak(route, eps, a) ==
  LET blank == {i \in DOMAIN route.hostnames : Strip(route.hostnames[i]) = <<>>}
      stop  == IF blank = {} THEN Len(route.hostnames) + 1
               ELSE CHOOSE i \in blank : \A j \in blank : i <= j
  IN  HostnamesLoop([route EXCEPT !.hostnames = SubSeq(route.hostnames, 1, stop - 1)],
                    1, eps, a)

\* one iteration of `for route in httproutes.get("items", [])`
ProcessHTTPRoute(route, eps, a) == HostnamesLoop(route, 1, eps, a)

----------------------------------------------------------------------------
(* validate_unique_names *)

DuplicateError(endpoint, first_url) ==
  ClickException("Duplicate endpoint name",
                 [name |-> endpoint.name, group |-> endpoint.group,
                  first_url |-> first_url, dup_url |-> endpoint.url])

RECURSIVE ValidateLoop(_, _, _)
ValidateLoop(eps, i, seen) ==
  IF i > Len(eps) THEN NoError
  ELSE LET key == <<eps[i].name, eps[i].group>>
       IN  IF DictHas(seen, key)
           THEN DuplicateError(eps[i], DictGet(seen, key, <<>>))
           ELSE ValidateLoop(eps, i + 1, DictSet(seen, key, eps[i].url))

\* a plausible slip: only neighbouring endpoints are compared
ValidateAdjacentOnly(eps) ==
  IF \E i \in 2..Len(eps) :
       <<eps[i].name, eps[i].group>> = <<eps[i-1].name, eps[i-1].group>>
  THEN LET i == CHOOSE j \in 2..Len(eps) :
                  /\ <<eps[j].name, eps[j].group>> = <<eps[j-1].name, eps[j-1].group>>
                  /\ \A k \in 2..(j-1) :
                       <<eps[k].name, eps[k].group>> # <<eps[k-1].name, eps[k-1].group>>
       IN  DuplicateError(eps[i], eps[i-1].url)
  ELSE NoError

\* validate_unique_names: the exception raised, or none
ValidateUniqueNames(eps) == ValidateLoop(eps, 1, <<>>)

----------------------------------------------------------------------------
(* main *)

\* output_data = {"endpoints": endpoints}
OutputData(eps) == [endpoints |-> eps]

Abort(e) ==
  /\ pc' = "aborted"
  /\ err' = e

\* line 291, include_httproute set: get_httproutes returns the items
GetHTTPRoutes ==
  /\ pc = "include_httproute"
  /\ args.include_httproute
  /\ pc' = "process_httproutes"
  /\ idx' = 1
  /\ UNCHANGED <<args, httproutes, ingresses, endpoints, err, output>>

\* line 291, include_httproute set: get_httproutes raises
GetHTTPRoutesFails ==
  /\ pc = "include_httproute"
  /\ args.include_httproute
  /\ Abort(<<[type |-> "ApiException", msg |-> "get_httproutes", detail |-> <<>>]>>)
  /\ UNCHANGED <<args, httproutes, ingresses, idx, endpoints, output>>

\* line 291, include_httproute not set
SkipHTTPRoutes ==
  /\ pc = "include_httproute"
  /\ ~args.include_httproute
  /\ pc' = "include_ingress"
  /\ UNCHANGED <<args, httproutes, ingresses, idx, endpoints, err, output>>

\* one iteration of process_httproutes' loop
HTTPRouteStep ==
  /\ pc = "process_httproutes"
  /\ idx <= Len(httproutes)
  /\ LET r == ProcessHTTPRoute(httproutes[idx], endpoints, args)
     IN  /\ endpoints' = r.endpoints
         /\ IF r.err # NoError
            THEN Abort(r.err) /\ UNCHANGED idx
            ELSE idx' = idx + 1 /\ UNCHANGED <<pc, err>>
  /\ UNCHANGED <<args, httproutes, ingresses, output>>

\* process_httproutes returns
HTTPRoutesDone ==
  /\ pc = "process_httproutes"
  /\ idx > Len(httproutes)
  /\ pc' = "include_ingress"
  /\ UNCHANGED <<args, httproutes, ingresses, idx, endpoints, err, output>>

\* line 297, include_ingress set: get_ingresses returns the items
GetIngresses ==
  /\ pc = "include_ingress"
  /\ args.include_ingress
  /\ pc' = "process_ingresses"
  /\ idx' = 1
  /\ UNCHANGED <<args, httproutes, ingresses, endpoints, err, output>>

\* line 297, include_ingress set: get_ingresses raises
GetIngressesFails ==
  /\ pc = "include_ingress"
  /\ args.include_ingress
  /\ Abort(<<[type |-> "ApiException", msg |-> "get_ingresses", detail |-> <<>>]>>)
  /\ UNCHANGED <<args, httproutes, ingresses, idx, endpoints, output>>

\* line 297, include_ingress not set
SkipIngresses ==
  /\ pc = "include_ingress"
  /\ ~args.include_ingress
  /\ pc' = "validate"
  /\ UNCHANGED <<args, httproutes, ingresses, idx, endpoints, err, output>>

\* one iteration of process_ingresses' loop
IngressStep ==
  /\ pc = "process_ingresses"
  /\ idx <= Len(ingresses)
  /\ LET r == ProcessIngress(ingresses[idx], endpoints, args)
     IN  /\ endpoints' = r.endpoints
         /\ IF r.err # NoError
            THEN Abort(r.err) /\ UNCHANGED idx
            ELSE idx' = idx + 1 /\ UNCHANGED <<pc, err>>
  /\ UNCHANGED <<args, httproutes, ingresses, output>>

\* process_ingresses returns
IngressesDone ==
  /\ pc = "process_ingresses"
  /\ idx > Len(ingresses)
  /\ pc' = "validate"
  /\ UNCHANGED <<args, httproutes, ingresses, idx, endpoints, err, output>>

\* lines 303-308
Validate ==
  /\ pc = "validate"
  /\ LET e == ValidateUniqueNames(endpoints)
     IN  IF e # NoError
         THEN Abort(e)
         ELSE pc' = "write" /\ UNCHANGED err
  /\ UNCHANGED <<args, httproutes, ingresses, idx, endpoints, output>>

\* lines 311-317
Write ==
  /\ pc = "write"
  /\ output' = <<OutputData(endpoints)>>
  /\ pc' = "done"
  /\ UNCHANGED <<args, httproutes, ingresses, idx, endpoints, err>>

Next ==
  \/ GetHTTPRoutes
  \/ GetHTTPRoutesFails
  \/ SkipHTTPRoutes
  \/ HTTPRouteStep
  \/ HTTPRoutesDone
  \/ GetIngresses
  \/ GetIngressesFails
  \/ SkipIngresses
  \/ IngressStep
  \/ IngressesDone
  \/ Validate
  \/ Write

----------------------------------------------------------------------------
(* Inputs *)

MaxRoutes      == 2   \* HTTPRoutes in the cluster
MaxIngresses   == 2   \* Ingresses in the cluster
MaxTargets     == 3   \* rules of an Ingress, hostnames of an HTTPRoute
MaxAnnotations == 2   \* annotations of a resource
MaxHeaders     == 3   \* --header options

SeqsUpTo(S, n) == UNION {[1..k -> S] : k \in 0..n}

\* dicts: no key twice
DictsUpTo(S, n) ==
  {d \in SeqsUpTo(S, n) : \A i, j \in DOMAIN d : d[i][1] = d[j][1] => i = j}

HostA == <<"a.example.com">>
HostB == <<"b.example.com">>

\* click's defaults for --interval, --status-code, --response-time
DefaultArgs ==
  [interval |-> <<"5m">>, status_code |-> <<"200">>, response_time |-> <<"5000">>,
   header |-> <<>>, include_ingress |-> TRUE, include_httproute |-> TRUE,
   group |-> None, alert |-> <<>>]

Flags == [include_ingress : BOOLEAN, include_httproute : BOOLEAN]

WithFlags(a, f) ==
  [a EXCEPT !.include_ingress = f.include_ingress,
            !.include_httproute = f.include_httproute]

Groups == {None, <<<<"ops">>>>}

Ingress(name, namespace, annotations, rules) ==
  [name |-> name, namespace |-> namespace, annotations |-> annotations,
   rules |-> rules]

HTTPRoute(name, parentRefs, annotations, hostnames) ==
  [name |-> name, parentRefs |-> parentRefs, annotations |-> annotations,
   hostnames |-> hostnames]

Api == <<"api">>
Web == <<"web">>

IngressCatalog ==
  { Ingress(Api, <<"internal">>, <<>>, <<HostA, HostB>>),
    Ingress(Web, <<"public">>, << <<NameKey, <<"app">>>> >>, <<HostA, HostB>>),
    Ingress(Web, <<"internal">>, << <<EnabledKey, <<"N","o">>>> >>, <<<<>>, HostB>>),
    Ingress(Api, <<"public">>, << <<EnabledKey, <<"m","a","y","b","e">>>> >>,
            <<HostA>>),
    Ingress(Api, <<"public">>, << <<EnabledKey, <<"m","a","y","b","e">>>> >>,
            <<<<>>>>),
    Ingress(Web, <<"public">>, << <<NameKey, <<"api", "[", "1", "]">>>> >>,
            <<HostB>>) }

RouteCatalog ==
  { HTTPRoute(Api, <<<<"public">>>>, <<>>, <<HostA, HostB>>),
    HTTPRoute(Web, <<>>, << <<EnabledKey, <<"Y","E","S">>>> >>,
              <<<<" ">>, <<" ">> \o HostB>>),
    HTTPRoute(Api, <<<<"public">>, <<"internal">>>>,
              << <<EnabledKey, <<>>>> >>, <<HostA>>),
    HTTPRoute(Web, <<<<"public">>>>, << <<NameKey, <<"api", "[", "1", "]">>>> >>,
              <<HostB>>) }

\* the API server holds one Ingress per (namespace, name)
DistinctIngresses(items) ==
  \A i, j \in DOMAIN items :
    (items[i].namespace = items[j].namespace /\ items[i].name = items[j].name)
      => i = j

Start ==
  /\ pc = "include_httproute"
  /\ idx = 1
  /\ endpoints = <<>>
  /\ err = NoError
  /\ output = None

\* a cluster of several resources
Init ==
  /\ args \in {[WithFlags(DefaultArgs, f) EXCEPT !.group = g] :
                 f \in Flags, g \in Groups}
  /\ httproutes \in SeqsUpTo(RouteCatalog, MaxRoutes)
  /\ ingresses \in {items \in SeqsUpTo(IngressCatalog, MaxIngresses) :
                      DistinctIngresses(items)}
  /\ Start

Spec == Init /\ [][Next]_vars

\* One resource, of either kind: items is the one-element list.
OneResource(name, scope, annotations, targets) ==
  \/ /\ httproutes = <<HTTPRoute(name, <<scope>>, annotations, targets)>>
     /\ ingresses = <<>>
  \/ /\ httproutes = <<>>
     /\ ingresses = <<Ingress(name, scope, annotations, targets)>>

NamingHosts == {<<>>, <<" ">>, HostA}

NamingAnnotations ==
  { <<>>,
    << <<NameKey, Api>> >>,
    << <<NameKey, Web>> >>,
    << <<NameKey, <<>>>> >> }

\* one resource, any list of targets, any name annotation
InitNaming ==
  /\ args \in {[WithFlags(DefaultArgs, f) EXCEPT !.group = g] :
                 f \in Flags, g \in Groups}
  /\ \E annotations \in NamingAnnotations,
        targets \in SeqsUpTo(NamingHosts, MaxTargets) :
       OneResource(Api, <<"public">>, annotations, targets)
  /\ Start

SpecNaming == InitNaming /\ [][Next]_vars

ConditionNames ==
  { StatusName, Upper(StatusName), ResponseTimeName,
    <<"r","e","s","p","o","n","s","e","_","t","i","m","e">>,
    <<"b","o","d","y">> }

ConditionValues ==
  { <<"=", "=", " ", "200">>, <<" ", "<", " ", "100", " ">> }

ConditionAnnotations ==
  {<<ConditionsPfx \o n, v>> : n \in ConditionNames, v \in ConditionValues}
    \cup { <<PathKey, <<"/healthz">>>> }

ConditionDefaults ==
  { [status_code |-> <<"200">>, response_time |-> <<"5000">>],
    [status_code |-> <<"204">>, response_time |-> <<"100">>] }

\* one resource with one target, any condition annotations, two pairs of defaults
InitConditions ==
  /\ args \in {[WithFlags(DefaultArgs, f) EXCEPT
                  !.status_code = d.status_code,
                  !.response_time = d.response_time] :
                 f \in Flags, d \in ConditionDefaults}
  /\ \E annotations \in DictsUpTo(ConditionAnnotations, MaxAnnotations) :
       OneResource(Api, <<"public">>, annotations, <<HostA>>)
  /\ Start

SpecConditions == InitConditions /\ [][Next]_vars

HeaderXA == <<"X","-","A">>
HeaderB  == <<"B">>

CliHeaders ==
  {<<k, v>> : k \in {HeaderXA, Lower(HeaderXA)}, v \in {<<"1">>, <<"2">>}}

HeaderAnnotations ==
  { <<HeaderPfx \o HeaderXA, <<"3">>>>,
    <<HeaderPfx \o HeaderB, <<"4">>>>,
    <<IntervalKey, <<"1m">>>> }

\* one resource with one target, any --header options and header annotations
InitHeaders ==
  /\ args \in {[WithFlags(DefaultArgs, f) EXCEPT !.header = h, !.alert = al] :
                 f \in Flags, h \in SeqsUpTo(CliHeaders, MaxHeaders),
                 al \in {<<>>, <<<<"slack">>>>}}
  /\ \E annotations \in DictsUpTo(HeaderAnnotations, MaxAnnotations) :
       OneResource(Api, <<"public">>, annotations, <<HostA>>)
  /\ Start

SpecHeaders == InitHeaders /\ [][Next]_vars

----------------------------------------------------------------------------
(* What a step of the two processing loops works on *)

\* the step is one iteration of process_httproutes' loop
AtRoute == pc = "process_httproutes" /\ idx <= Len(httproutes)

\* the step is one iteration of process_ingresses' loop
AtIngress == pc = "process_ingresses" /\ idx <= Len(ingresses)

AtResource == AtRoute \/ AtIngress

\* the resource the step processes: its name, annotations and raw targets
CurName == IF AtRoute THEN httproutes[idx].name ELSE ingresses[idx].name

CurAnnotations ==
  IF AtRoute THEN httproutes[idx].annotations ELSE ingresses[idx].annotations

CurTargets == IF AtRoute THEN httproutes[idx].hostnames ELSE ingresses[idx].rules

IsBlank(s) == \A i \in DOMAIN s : s[i] \in {" ", "\t", "\n"}

\* a hostname survives when it is not blank, a rule when its host is not empty
Survives(target) == IF AtRoute THEN ~IsBlank(target) ELSE target # <<>>

CurSurviving == SelectSeq(CurTargets, Survives)

\* the endpoints the step appends to the batch
Appended == SubSeq(endpoints', Len(endpoints) + 1, Len(endpoints'))

Indexed(name, i) == name \o <<"[">> \o IntToStr(i) \o <<"]">>

SameKey(e, f) == e.name = f.name /\ e.group = f.group

HasDuplicate(eps) ==
  \E i, j \in DOMAIN eps : i < j /\ SameKey(eps[i], eps[j])

\* the position of the first endpoint that repeats the pair of an earlier one
FirstRepeat(eps) ==
  CHOOSE j \in DOMAIN eps :
    /\ \E i \in 1..(j - 1) : SameKey(eps[i], eps[j])
    /\ \A k \in 1..(j - 1) : ~\E i \in 1..(k - 1) : SameKey(eps[i], eps[k])

\* the first endpoint that carries the pair of eps[j]
FirstWithKey(eps, j) ==
  CHOOSE i \in 1..j : SameKey(eps[i], eps[j]) /\
                      \A k \in 1..(i - 1) : ~SameKey(eps[k], eps[j])

----------------------------------------------------------------------------
(* C1 *)

\* C1: when the batch handed to validate_unique_names holds two endpoints with
\* the same (name, group), whatever resources or kinds they come from, the step
\* raises the collision error for the first repeated pair; and a batch with a
\* repeated pair never coexists with an opened output file.
C1_DuplicateAborts ==
  /\ [][(pc = "validate" /\ HasDuplicate(endpoints)) =>
          LET j == FirstRepeat(endpoints)
              i == FirstWithKey(endpoints, j)
          IN  /\ pc' = "aborted"
              /\ err' = <<[type |-> "ClickException",
                           msg |-> "Duplicate endpoint name",
                           detail |-> [name |-> endpoints[j].name,
                                       group |-> endpoints[j].group,
                                       first_url |-> endpoints[i].url,
                                       dup_url |-> endpoints[j].url]]>>
              /\ output' = None]_vars
  /\ [](HasDuplicate(endpoints) => output = None /\ pc \notin {"write", "done"})

\* C1 witness: an HTTPRoute and an Ingress yield the same pair (under --group),
\* after a first pair that does not repeat, and the run ended on the collision.
C1_Witness ==
  /\ pc = "aborted"
  /\ err # NoError /\ err[1].type = "ClickException"
  /\ Len(httproutes) = 1 /\ Len(ingresses) = 1
  /\ Len(endpoints) = 4
  /\ SameKey(endpoints[1], endpoints[3])
  /\ output = None

----------------------------------------------------------------------------
(* C2, C3, C4 *)

NoNameAnnotation == ~DictHas(CurAnnotations, NameKey)

\* C2: a resource without gatus.io/name and with k > 1 surviving targets yields
\* the endpoints <resource>[1] .. <resource>[k], numbered over the surviving
\* targets.
C2_FilteredIndex ==
  [][(AtResource /\ NoNameAnnotation /\ Len(CurSurviving) > 1) =>
       /\ Len(Appended) = Len(CurSurviving)
       /\ \A i \in DOMAIN Appended : Appended[i].name = Indexed(CurName, i)]_vars

\* C3: a resource without gatus.io/name and with exactly one surviving target
\* yields one endpoint named as the resource, without a suffix.
C3_SingleTargetNoSuffix ==
  [][(AtResource /\ NoNameAnnotation /\ Len(CurSurviving) = 1) =>
       /\ Len(Appended) = 1
       /\ Appended[1].name = CurName]_vars

\* C4: every endpoint of a resource that carries gatus.io/name is named by the
\* annotation's value, verbatim.
C4_AnnotationVerbatim ==
  [][(AtResource /\ ~NoNameAnnotation) =>
       \A i \in DOMAIN Appended :
         Appended[i].name = DictGet(CurAnnotations, NameKey, <<>>)]_vars

----------------------------------------------------------------------------
(* C5, C6, C7 *)

\* the NAME of a condition "[NAME] expression"
RECURSIVE UpToBracket(_)
UpToBracket(s) ==
  IF s = <<>> \/ Head(s) = "]" THEN <<>> ELSE <<Head(s)>> \o UpToBracket(Tail(s))

BracketedName(condition) == UpToBracket(Tail(condition))

StatusKey == ConditionsPfx \o StatusName

ResponseTimeKey == ConditionsPfx \o ResponseTimeName

StatusEntry(expression) ==
  <<"[", "S", "T", "A", "T", "U", "S", "]", " ">> \o expression

ResponseTimeEntry(expression) ==
  <<"[", "R", "E", "S", "P", "O", "N", "S", "E", "_", "T", "I", "M", "E", "]", " ">>
    \o expression

DefaultStatusEntry == StatusEntry(<<"=", "=", " ">> \o args.status_code)

DefaultResponseTimeEntry == ResponseTimeEntry(<<"<", " ">> \o args.response_time)

Trimmed(s) ==
  LET keep == {i \in DOMAIN s : ~IsBlank(<<s[i]>>)}
  IN  IF keep = {} THEN <<>>
      ELSE SubSeq(s, CHOOSE i \in keep : \A j \in keep : i <= j,
                     CHOOSE i \in keep : \A j \in keep : j <= i)

\* C5: when gatus.io/conditions.status is set, the conditions of every endpoint
\* hold exactly one [STATUS] entry, it carries the trimmed value of the
\* annotation, and the default status entry is not there beside it.
C5_StatusOverride ==
  [][(AtResource /\ DictHas(CurAnnotations, StatusKey)) =>
       \A k \in DOMAIN Appended :
         LET conditions == Appended[k].conditions
             mine == StatusEntry(Trimmed(DictGet(CurAnnotations, StatusKey, <<>>)))
             status == {i \in DOMAIN conditions :
                          BracketedName(conditions[i]) = BracketedName(mine)}
         IN  /\ Cardinality(status) = 1
             /\ \A i \in status : conditions[i] = mine
             /\ mine # DefaultStatusEntry =>
                  \A i \in DOMAIN conditions : conditions[i] # DefaultStatusEntry]_vars

\* C6: no two conditions of an endpoint carry the same bracketed NAME.
C6_UniqueNames ==
  [][AtResource =>
       \A k \in DOMAIN Appended :
         LET conditions == Appended[k].conditions
         IN  \A i, j \in DOMAIN conditions :
               BracketedName(conditions[i]) = BracketedName(conditions[j]) => i = j]_vars

IsConditionKey(key) == key # <<>> /\ <<key[1]>> = ConditionsPfx

\* the annotations that set a condition, in iteration order
ConditionItems(annotations) ==
  SelectSeq(annotations, LAMBDA item : IsConditionKey(item[1]))

\* C7: the conditions of an endpoint are one entry per gatus.io/conditions.*
\* annotation, in iteration order, then the defaults no annotation names, status
\* before response-time; without such annotations they are the two defaults.
C7_ConditionOrder ==
  [][AtResource =>
       \A k \in DOMAIN Appended :
         LET conditions == Appended[k].conditions
             items == ConditionItems(CurAnnotations)
             n == Len(items)
             rest == (IF DictHas(CurAnnotations, StatusKey) THEN <<>>
                      ELSE <<DefaultStatusEntry>>)
                     \o (IF DictHas(CurAnnotations, ResponseTimeKey) THEN <<>>
                         ELSE <<DefaultResponseTimeEntry>>)
         IN  /\ Len(conditions) = n + Len(rest)
             /\ \A i \in 1..n :
                  /\ BracketedName(conditions[i]) = NormaliseName(Tail(items[i][1]))
                  /\ SubSeq(conditions[i], Len(items[i][1]) + 3, Len(conditions[i]))
                       = Trimmed(items[i][2])
             /\ SubSeq(conditions, n + 1, Len(conditions)) = rest
             /\ n = 0 => conditions = <<DefaultStatusEntry, DefaultResponseTimeEntry>>]_vars

\* C7 witness: an endpoint was built from two condition annotations, the second
\* of which overrides response-time; three conditions, the status default last.
C7_Witness ==
  /\ pc = "done"
  /\ Len(endpoints) = 1
  /\ Len(ingresses) = 1
  /\ Len(ConditionItems(ingresses[1].annotations)) = 2
  /\ ingresses[1].annotations[2][1] = ResponseTimeKey
  /\ Len(endpoints[1].conditions) = 3
  /\ endpoints[1].conditions[3] = DefaultStatusEntry

----------------------------------------------------------------------------
(* C8 *)

IsHeaderKey(key) == key # <<>> /\ <<key[1]>> = HeaderPfx

CliKeys == {args.header[i][1] : i \in DOMAIN args.header}

\* the <name> of every gatus.io/header.<name> annotation
AnnotationHeaderNames(annotations) ==
  {Tail(annotations[i][1]) : i \in {j \in DOMAIN annotations :
                                      IsHeaderKey(annotations[j][1])}}

LastCliValue(k) ==
  LET last == CHOOSE i \in DOMAIN args.header :
                /\ args.header[i][1] = k
                /\ \A j \in DOMAIN args.header : args.header[j][1] = k => j <= i
  IN  args.header[last][2]

\* the value the map holds for key k (k is a key of it)
ValueOf(headers, k) ==
  headers[CHOOSE i \in DOMAIN headers : headers[i][1] = k][2]

\* C8: the headers of an endpoint hold every --header key and every
\* gatus.io/header.<name> key, spelled as given; a key of both carries the
\* annotation's value, a key of the command line alone the value of its last
\* occurrence there.
C8_HeaderMerge ==
  [][AtResource =>
       \A e \in DOMAIN Appended :
         LET headers == Appended[e].headers
             names == AnnotationHeaderNames(CurAnnotations)
         IN  /\ {headers[i][1] : i \in DOMAIN headers} = CliKeys \cup names
             /\ \A i, j \in DOMAIN headers : headers[i][1] = headers[j][1] => i = j
             /\ \A k \in names :
                  ValueOf(headers, k) = DictGet(CurAnnotations, HeaderPfx \o k, <<>>)
             /\ \A k \in CliKeys \ names :
                  ValueOf(headers, k) = LastCliValue(k)]_vars

\* C8 witness: X-A comes from the command line and from an annotation, x-a from
\* the command line twice; the endpoint holds both spellings, X-A with the
\* annotation's value and x-a with the later command-line value.
C8_Witness ==
  /\ pc = "done"
  /\ Len(endpoints) = 1
  /\ Len(args.header) = 3
  /\ args.header[1] = <<Lower(HeaderXA), <<"1">>>>
  /\ args.header[2][1] = HeaderXA
  /\ args.header[3] = <<Lower(HeaderXA), <<"2">>>>
  /\ \E i, j \in DOMAIN endpoints[1].headers :
       /\ endpoints[1].headers[i] = <<HeaderXA, <<"3">>>>
       /\ endpoints[1].headers[j] = <<Lower(HeaderXA), <<"2">>>>

----------------------------------------------------------------------------
(* C9 *)

\* the URLs of the targets of a resource that yield an endpoint
RECURSIVE TargetUrls(_, _, _)
TargetUrls(targets, path, isRoute) ==
  IF targets = <<>> THEN <<>>
  ELSE LET host == IF isRoute THEN Trimmed(Head(targets)) ELSE Head(targets)
       IN  (IF host = <<>> THEN <<>> ELSE << <<"https://">> \o host \o path >>)
           \o TargetUrls(Tail(targets), path, isRoute)

PathOf(annotations) ==
  IF \E i \in DOMAIN annotations : annotations[i][1] = PathKey
  THEN annotations[CHOOSE i \in DOMAIN annotations : annotations[i][1] = PathKey][2]
  ELSE <<>>

RECURSIVE RouteUrls(_)
RouteUrls(items) ==
  IF items = <<>> THEN <<>>
  ELSE TargetUrls(Head(items).hostnames, PathOf(Head(items).annotations), TRUE)
       \o RouteUrls(Tail(items))

RECURSIVE IngressUrls(_)
IngressUrls(items) ==
  IF items = <<>> THEN <<>>
  ELSE TargetUrls(Head(items).rules, PathOf(Head(items).annotations), FALSE)
       \o IngressUrls(Tail(items))

\* kind, then resource, then target
ExpectedUrls ==
  (IF args.include_httproute THEN RouteUrls(httproutes) ELSE <<>>)
  \o (IF args.include_ingress THEN IngressUrls(ingresses) ELSE <<>>)

Urls(eps) == [i \in DOMAIN eps |-> eps[i].url]

\* C9: the document written holds, under "endpoints", the endpoints of the
\* HTTPRoutes before those of the Ingresses, each kind in retrieval order and
\* each resource in target order; from validation on the batch does not change
\* and the document holds the batch as it is.
C9_OutputOrder ==
  /\ [](pc = "done" =>
          /\ output # None
          /\ DOMAIN output[1] = {"endpoints"}
          /\ output[1].endpoints = endpoints
          /\ Urls(output[1].endpoints) = ExpectedUrls)
  /\ [][(pc \in {"validate", "write"}) => (endpoints' = endpoints)]_vars

\* C9 witness: two HTTPRoutes and two Ingresses, five endpoints written.
C9_Witness ==
  /\ pc = "done"
  /\ Len(httproutes) = 2 /\ Len(ingresses) = 2
  /\ Len(output[1].endpoints) = 5
  /\ httproutes[1] # httproutes[2]

----------------------------------------------------------------------------
(* C10 *)

TrueSpellings == { <<"t","r","u","e">>, <<"y","e","s">>, <<"y">>, <<"1">> }

FalseSpellings == { <<"f","a","l","s","e">>, <<"n","o">>, <<"n">>, <<"0">> }

Lowered(s) ==
  [i \in DOMAIN s |->
     IF \E k \in 1..26 : UpperLetters[k] = s[i]
     THEN LowerLetters[CHOOSE k \in 1..26 : UpperLetters[k] = s[i]]
     ELSE s[i]]

EnabledValue == DictGet(CurAnnotations, EnabledKey, <<>>)

\* C10: a resource with a surviving target whose gatus.io/enabled is none of
\* true/yes/y/1/false/no/n/0 (in any case) ends the run with an error, and an
\* aborted run never has an output file; with one of these values the endpoints
\* carry the boolean it spells, and true when the annotation is absent.
C10_EnabledAnnotation ==
  /\ [][(AtResource /\ CurSurviving # <<>>) =>
          IF ~DictHas(CurAnnotations, EnabledKey)
          THEN \A i \in DOMAIN Appended : Appended[i].enabled = TRUE
          ELSE IF Lowered(EnabledValue) \in TrueSpellings
          THEN \A i \in DOMAIN Appended : Appended[i].enabled = TRUE
          ELSE IF Lowered(EnabledValue) \in FalseSpellings
          THEN \A i \in DOMAIN Appended : Appended[i].enabled = FALSE
          ELSE /\ pc' = "aborted"
               /\ err' # NoError /\ err'[1].type = "ValueError"
               /\ Appended = <<>>
               /\ output' = None]_vars
  /\ [](pc = "aborted" => output = None)
  /\ [][(pc = "aborted") => (pc' = "aborted")]_vars

\* C10 witness: two endpoints were accumulated, then an Ingress with
\* gatus.io/enabled "maybe" ended the run; nothing was written.
C10_Witness ==
  /\ pc = "aborted"
  /\ err # NoError /\ err[1].type = "ValueError"
  /\ Len(endpoints) >= 2
  /\ Len(ingresses) = 2
  /\ DictGet(ingresses[2].annotations, EnabledKey, <<>>) = <<"m","a","y","b","e">>
  /\ output = None

----------------------------------------------------------------------------
(* C11 *)

\* C11: a step of either loop appends as many endpoints as the resource has
\* surviving targets; a resource without surviving targets appends nothing and
\* raises nothing.
C11_CountEqualsSurviving ==
  [][AtResource =>
       /\ Len(Appended) = Len(CurSurviving)
       /\ CurSurviving = <<>> => pc' # "aborted"]_vars

\* Endpoint construction raises for the resource of the step: it has a
\* surviving target, and its gatus.io/name is empty or its gatus.io/enabled
\* spells no boolean.
CurRaises ==
  /\ CurSurviving # <<>>
  /\ \/ DictGet(CurAnnotations, NameKey, CurName) = <<>>
     \/ /\ DictHas(CurAnnotations, EnabledKey)
        /\ Lowered(EnabledValue) \notin (TrueSpellings \cup FalseSpellings)

\* C11 as amended: unless Endpoint construction raises for the resource, the
\* step appends as many endpoints as the resource has surviving targets and
\* the run goes on; when construction raises, the step appends nothing and the
\* run aborts.  A resource without surviving targets appends nothing and
\* raises nothing, whatever its annotations.
C11_CountUnlessRaises ==
  [][AtResource =>
       IF CurRaises
       THEN Appended = <<>> /\ pc' = "aborted"
       ELSE Len(Appended) = Len(CurSurviving) /\ pc' # "aborted"]_vars

\* C11 witness: an HTTPRoute listing three hostnames, one of them blank, was
\* processed and the run wrote its two endpoints.
C11_Witness ==
  /\ pc = "done"
  /\ Len(httproutes) = 1
  /\ Len(httproutes[1].hostnames) = 3
  /\ Cardinality({i \in 1..3 : IsBlank(httproutes[1].hostnames[i])}) = 1
  /\ Len(endpoints) = 2

----------------------------------------------------------------------------
(* C12 *)

\* gatus.io/name is set to something else than the resource's name, and two
\* or more targets survive
Renamed(annotations, name, surviving) ==
  /\ \E i \in DOMAIN annotations :
       annotations[i][1] = NameKey /\ annotations[i][2] # name
  /\ Len(surviving) >= 2

RouteRenamed(route) ==
  Renamed(route.annotations, route.name,
          SelectSeq(route.hostnames, LAMBDA h : ~IsBlank(h)))

IngressRenamed(ingress) ==
  Renamed(ingress.annotations, ingress.name,
          SelectSeq(ingress.rules, LAMBDA h : h # <<>>))

CurRenamed == Renamed(CurAnnotations, CurName, CurSurviving)

\* how many items of each loop the run has processed (while it has not aborted)
RoutesProcessed ==
  IF pc = "process_httproutes" THEN idx - 1
  ELSE IF pc \in {"include_ingress", "process_ingresses", "validate", "write", "done"}
          /\ args.include_httproute
       THEN Len(httproutes)
       ELSE 0

IngressesProcessed ==
  IF pc = "process_ingresses" THEN idx - 1
  ELSE IF pc \in {"validate", "write", "done"} /\ args.include_ingress
       THEN Len(ingresses)
       ELSE 0

\* a renamed resource with several targets has been processed
RenamedProcessed ==
  /\ pc # "aborted"
  /\ \/ \E i \in 1..RoutesProcessed : RouteRenamed(httproutes[i])
     \/ \E i \in 1..IngressesProcessed : IngressRenamed(ingresses[i])

\* C12: once a resource whose gatus.io/name differs from its own name and that
\* has two or more surviving targets has been processed, the run can only end
\* by validate_unique_names raising, and it writes no output file.
C12_AlwaysCollides ==
  /\ [][(RenamedProcessed /\ pc' = "aborted") =>
          (err' # NoError /\ err'[1].type = "ClickException")]_vars
  /\ [](RenamedProcessed => output = None /\ pc \notin {"write", "done"})

\* C12 as amended: the endpoints of such a resource all carry the annotation's
\* value as name and one group; validate_unique_names raises whenever the run
\* reaches it with such a resource processed; and whether the run ends there or
\* earlier, on another error, it writes no output file.
C12_CollidesIfReached ==
  /\ [][(AtResource /\ CurRenamed /\ pc' # "aborted") =>
          /\ Len(Appended) >= 2
          /\ \A i, j \in DOMAIN Appended :
               /\ Appended[i].name = DictGet(CurAnnotations, NameKey, <<>>)
               /\ SameKey(Appended[i], Appended[j])]_vars
  /\ [][(pc = "validate" /\ RenamedProcessed) =>
          /\ pc' = "aborted"
          /\ err' # NoError /\ err'[1].type = "ClickException"]_vars
  /\ [][RenamedProcessed => output' = None]_vars
  /\ [](RenamedProcessed => output = None /\ pc \notin {"write", "done"})

\* C12 witness: the one Ingress of the cluster is named web, carries
\* gatus.io/name "app" and has two hosts; both endpoints are named app and the
\* run ended on the collision.
C12_Witness ==
  /\ pc = "aborted"
  /\ err # NoError /\ err[1].type = "ClickException"
  /\ Len(ingresses) = 1 /\ IngressRenamed(ingresses[1])
  /\ Len(endpoints) = 2
  /\ endpoints[1].name = <<"app">> /\ endpoints[2].name = <<"app">>
  /\ output = None

====
